---------------------------- MODULE Spec2Model ----------------------------
(***************************************************************************)
(* Model of the concurrent entity store of naive_poc                       *)
(* (src/src/internal_api/mod.rs, wal.rs, hashes.rs).                       *)
(*                                                                         *)
(* States<L> owns three tables (artists, releases, events), each an        *)
(* RwLock<Vec<RwLock<Record>>>, and a reference to a LogStore.  Threads    *)
(* call artist_add / release_add / event_add / artist_metadata_update      *)
(* concurrently.  Each call is split at the points where it takes a lock   *)
(* or calls the log, so every interleaving the locks allow is explored.    *)
(*                                                                         *)
(* The derive macro DiffFields (src/macros/src/lib.rs), which generates    *)
(* the diff type and the apply function of each record type, is modelled   *)
(* as a function of the struct definition it is given.                     *)
(***************************************************************************)
EXTENDS Integers, Sequences, FiniteSets, TLC

\* ------------------------------------------------------------------ bounds
\* Total number of calls started in one behaviour.
MaxCalls == 3

\* ------------------------------------------------------------------ inputs
Procs == {"t1", "t2"}
NoProc == "none"
Tables == {"artists", "releases", "events"}
UserIds == {"u1"}
Names == {"a", "b"}
\* Seeds given to the add calls: two names for artists, one title / name for
\* releases and events ("" is the default String, so every seed differs from it).
Seeds(t) == IF t = "artists" THEN Names ELSE {"a"}
\* Artist ids callers present (0-based, as in the code); with fewer than two
\* artists in the table the upper ones are out of bounds.
ArtistIds == {0, 1}
None == "None"

VARIABLES
    tables,      \* States.artists / releases / events: Vec of records
    tbl_writer,  \* per table: thread holding the outer RwLock for writing
    tbl_readers, \* per table: threads holding the outer RwLock for reading
    rec_writer,  \* per artist: thread holding the record's RwLock for writing
    wal,         \* NaiveLogStore: Vec<(UserId, String, String)>
    pc,          \* per thread: position inside its current call
    call,        \* per thread: arguments and locals of its current/last call
    ret,         \* per thread: result of its last completed call
    ncalls,      \* number of calls started
    conc,        \* history: per thread, the threads whose current call overlaps its own
    issued,      \* history: per table, ids returned by successful adds, in order
    accepted,    \* history: per artist, the accepted (Ok) updates so far, in
                 \* order: the hash of each diff and the token returned for it
    log_holder,  \* thread holding NaiveLogStore's Mutex
    poisoned,    \* the tables whose RwLock is poisoned, and "wal" for the log's Mutex
    rec_poisoned,\* the artists (1-based index) whose record RwLock is poisoned
    input,       \* derive macro: the struct definition handed to derive_diffs
    output,      \* derive macro: the fields it generated a variant and a match arm for
    obj,         \* derive macro: an object of the struct, for the generated apply function
    group_members,      \* States.group_members: group id -> member ids
    artist_discography, \* States.artist_discography: artist id -> track references
    derived_songs       \* States.derived_songs: track reference -> derived tracks

locks == <<log_holder, poisoned, rec_poisoned>>
macro == <<input, output, obj>>
derived == <<group_members, artist_discography, derived_songs>>

vars == <<tables, tbl_writer, tbl_readers, rec_writer, wal, pc, call, ret,
          ncalls, conc, issued, accepted, log_holder, poisoned, rec_poisoned,
          input, output, obj, group_members, artist_discography, derived_songs>>

artists == tables["artists"]
releases == tables["releases"]
events == tables["events"]

\* ------------------------------------------------------------ Hash128, mix
\* Hash128 values callers present: 0 is the token of a fresh record, 1 is a
\* token different from it.  (The mixing step is bitwise and never overflows,
\* so the 128-bit width plays no part.)
Hash128s == {0, 1}

RECURSIVE BitAnd(_, _)
BitAnd(a, b) ==
    IF a = 0 \/ b = 0 THEN 0
    ELSE (a % 2) * (b % 2) + 2 * BitAnd(a \div 2, b \div 2)

RECURSIVE BitOr(_, _)
BitOr(a, b) ==
    IF a = 0 THEN b
    ELSE IF b = 0 THEN a
    ELSE (IF a % 2 = 1 \/ b % 2 = 1 THEN 1 ELSE 0) + 2 * BitOr(a \div 2, b \div 2)

\* safe_mix::sub_mix: bitwise majority of three seeds.
sub_mix(s) == BitOr(BitOr(BitAnd(s[1], s[2]), BitAnd(s[2], s[3])), BitAnd(s[1], s[3]))

\* The inner loop of safe_mix's TripletMix::triplet_mix: when the seed at
\* index idx closes a triplet at this depth, mix it and carry the result up.
RECURSIVE Cascade(_, _, _, _)
Cascade(accum, result, idx, depth) ==
    IF idx % 3 # 2 THEN [accum |-> accum, result |-> result]
    ELSE LET r == sub_mix(accum[depth])
             up == idx \div 3
         IN  Cascade([accum EXCEPT ![depth + 1][(up % 3) + 1] = r], r, up, depth + 1)

\* The outer loop: seeds are consumed in order; result starts as
\* T::default() (0) and is overwritten only when a triplet is completed.
RECURSIVE MixLoop(_, _, _, _)
MixLoop(seeds, i, accum, result) ==
    IF i >= Len(seeds) THEN result
    ELSE LET a0 == [accum EXCEPT ![0][(i % 3) + 1] = seeds[i + 1]]
             c == Cascade(a0, result, i, 0)
         IN  MixLoop(seeds, i + 1, c.accum, c.result)

\* safe_mix::triplet_mix(&[..]).unwrap().  safe_mix is an external crate; the
\* definitions above follow its algorithm (bitwise majority over completed
\* triplets, level by level).  The call always returns Ok; with fewer than
\* three seeds no triplet is ever completed and the result is the default, 0.
triplet_mix(seeds) ==
    MixLoop(seeds, 0, [d \in 0 .. Len(seeds) + 1 |-> <<0, 0, 0>>], 0)

\* ------------------------------------------------- #[derive(DiffFields)]
\* A struct definition, as the derive macro receives it, is the sequence of
\* its named fields; a field is its identifier and the sequence of its
\* attributes; an attribute is its syn::Meta: a bare path (#[skip_diff]), a
\* list (#[serde(flatten)]) or a name-value pair (#[doc = ".."]).
skip_diff == [meta |-> "Path", path |-> "skip_diff"]
other_path == [meta |-> "Path", path |-> "other"]
serde_list == [meta |-> "List", path |-> "serde"]
doc_value == [meta |-> "NameValue", path |-> "doc"]

\* ident.to_string().to_upper_camel_case(), on the identifiers modelled.
map_ident(ident) ==
    CASE ident = "name" -> "Name"
      [] ident = "aliases" -> "Aliases"
      [] ident = "kind" -> "Kind"
      [] ident = "seq_id" -> "SeqId"
      [] ident = "tags" -> "Tags"
      [] ident = "a" -> "A"
      [] ident = "b" -> "B"
      [] ident = "skipped" -> "Skipped"

\* The closure given to find: if let Meta::Path(ref p) = attr.meta
\* { p.is_ident("skip_diff") } else { true }.
find_attr(attr) == IF attr.meta = "Path" THEN attr.path = "skip_diff" ELSE TRUE

\* field.attrs.iter().find(..).is_some(): the field is left out.
left_out(field) == \E k \in 1 .. Len(field.attrs) : find_attr(field.attrs[k])

\* let fields: Vec<_> = fields.named.iter().flat_map(..).collect(): the
\* fields that are kept, in declaration order.
derive_diffs(named) ==
    LET kept(field) == ~left_out(field) IN SelectSeq(named, kept)

\* The variants of the generated enum, one per kept field.
variants(fields) == {map_ident(fields[k].ident) : k \in 1 .. Len(fields)}

\* The values of the generated enum, for fields whose payloads are drawn
\* from vals.
DiffType(fields, vals) ==
    UNION {[variant : {map_ident(fields[k].ident)}, v : vals] : k \in 1 .. Len(fields)}

\* No diff applied yet.
NoDiff == [variant |-> "None", v |-> 0]

\* Mutant of apply_fn: every arm assigns to the first kept field.
apply_fn_FirstField(fields, o, diff) == [o EXCEPT ![fields[1].ident] = diff.v]

\* The generated apply function: match diff { Name::Variant(v) => { obj.ident = v; } .. }.
apply_fn(fields, o, diff) ==
    LET arm == CHOOSE k \in 1 .. Len(fields) : map_ident(fields[k].ident) = diff.variant
    IN  [o EXCEPT ![fields[arm].ident] = diff.v]

\* ------------------------------------------------------------------ records
Kinds == {"Solo", "Group"}

\* ArtistMetaData as DiffFields receives it: name and aliases stand for the
\* plain fields, kind for the Option fields, seq_id and tags for the
\* #[skip_diff] ones.  #[skip_serializing_none] stands above the derive, so
\* it has already put #[serde(skip_serializing_if = "Option::is_none")] on
\* every Option field.
ArtistMetaData ==
    << [ident |-> "name", attrs |-> <<>>],
       [ident |-> "aliases", attrs |-> <<>>],
       [ident |-> "kind", attrs |-> <<serde_list>>],
       [ident |-> "seq_id", attrs |-> <<skip_diff>>],
       [ident |-> "tags", attrs |-> <<skip_diff>>] >>

\* Mutant of NewArtist: the seed is dropped and the name left at its default.
NewArtist_NoSeed(name) ==
    [name |-> "", aliases |-> <<>>, kind |-> None, seq_id |-> 0, tags |-> <<>>]

\* ArtistMetaData { name, ..Default::default() }.
NewArtist(name) ==
    [name |-> name, aliases |-> <<>>, kind |-> None, seq_id |-> 0, tags |-> <<>>]
NewRelease(title) == [title |-> title, release_kind |-> None, seq_id |-> 0, tags |-> <<>>]
NewEvent(name) == [name |-> name, location |-> None, seq_id |-> 0]

NewRecord(t, seed) ==
    CASE t = "artists" -> NewArtist(seed)
      [] t = "releases" -> NewRelease(seed)
      [] t = "events" -> NewEvent(seed)

ApiName(t) ==
    CASE t = "artists" -> "artist_add"
      [] t = "releases" -> "release_add"
      [] t = "events" -> "event_add"

\* The payloads callers send for a field of an artist.
Payloads(ident) ==
    CASE ident = "name" -> {"b"}
      [] ident = "aliases" -> {<<"b">>}
      [] ident = "kind" -> {"Group"}
      [] ident = "seq_id" -> {1}
      [] ident = "tags" -> {<<1>>}

\* ArtistMetaDataDiff: the enum generated for ArtistMetaData, one variant per
\* kept field.
ArtistMetaDataDiffs ==
    LET fields == derive_diffs(ArtistMetaData) IN
    UNION {[variant : {map_ident(fields[k].ident)}, v : Payloads(fields[k].ident)] :
           k \in 1 .. Len(fields)}

\* apply_artist_meta_data_diff: the apply function generated for ArtistMetaData.
apply_artist_meta_data_diff(o, diff) == apply_fn(derive_diffs(ArtistMetaData), o, diff)

\* get_hash: a 128-bit SipHash of the diff.  Modelled as an injective map
\* of the modelled diffs into the non-zero Hash128 values.
get_hash(diff) ==
    CASE diff.variant = "Name" /\ diff.v = "a" -> 1
      [] diff.variant = "Name" /\ diff.v = "b" -> 2
      [] diff.variant = "Aliases" -> 3


\* ------------------------------------------------------------ serialization
\* Option fields of the records; #[skip_serializing_none] leaves a None out.
OptionKeys == {"kind", "release_kind", "location"}

\* serde_json::to_string of a record: a JSON object, modelled as a function
\* from the keys that are written to their values.
to_string(rec) ==
    [k \in {f \in DOMAIN rec : ~(f \in OptionKeys /\ rec[f] = None)} |-> rec[k]]

\* serde_json::to_string of a diff: the externally tagged enum {"Variant": v}.
to_string_diff(diff) == [k \in {diff.variant} |-> diff.v]

\* Mutant of record: the entry is put at the front of the store.
record_Prepend(store, user, api_name, payload) == <<<<user, api_name, payload>>>> \o store

\* NaiveLogStore::record, the successful path: one entry is pushed at the end.
record(store, user, api_name, payload) == Append(store, <<user, api_name, payload>>)

\* ------------------------------------------------------------------ results
NoRet == [kind |-> "None", val |-> 0]
Ok(v) == [kind |-> "Ok", val |-> v]
InvalidArtistId(id) == [kind |-> "InvalidArtistId", val |-> id]
OutdatedUpdate == [kind |-> "OutdatedUpdate", val |-> 0]
Other == [kind |-> "Other", val |-> 0]
Panic == [kind |-> "Panic", val |-> 0]
Poisoned == [kind |-> "Poisoned", val |-> 0]

Running(q) == pc[q] \notin {"idle", "done"}

\* History kept when thread p starts a call: the calls in progress now overlap
\* it; the call p has just finished overlaps no call that is over.
Overlaps(p) ==
    [q \in Procs |->
        IF q = p THEN {r \in Procs \ {p} : Running(r)}
        ELSE IF Running(q) THEN conc[q] \cup {p} ELSE conc[q] \ {p}]

\* Mutant of is_poisoned: the poison flag of a table's lock is ignored.
is_poisoned_Never(lock) == FALSE

\* self.artists.write() / read() is Err(PoisonError) when a writer of the
\* table's lock panicked; self.0.lock() likewise for the log's Mutex.
is_poisoned(lock) == lock \in poisoned

\* artists[id.0].write() is Err(PoisonError) when a writer of the record's
\* lock panicked.
rec_is_poisoned(i) == i \in rec_poisoned

\* -------------------------------------------------------------------- Init
InitStore ==
    /\ tables = [t \in Tables |-> <<>>]
    /\ tbl_writer = [t \in Tables |-> NoProc]
    /\ tbl_readers = [t \in Tables |-> {}]
    /\ rec_writer = <<>>
    /\ wal = <<>>
    /\ pc = [p \in Procs |-> "idle"]
    /\ call = [p \in Procs |-> [op |-> "none"]]
    /\ ret = [p \in Procs |-> NoRet]
    /\ ncalls = 0
    /\ conc = [p \in Procs |-> {}]
    /\ issued = [t \in Tables |-> <<>>]
    /\ accepted = <<>>
    /\ log_holder = NoProc
    /\ poisoned = {}
    /\ rec_poisoned = {}
    /\ group_members = <<>>
    /\ artist_discography = <<>>
    /\ derived_songs = <<>>

\* The store runs on code the macro has already generated.
Init ==
    /\ InitStore
    /\ input = ArtistMetaData
    /\ output = [done |-> TRUE, fields |-> derive_diffs(ArtistMetaData), diff |-> NoDiff]
    /\ obj = NewArtist("")

\* ------------------------------------------- artist_add / release_add / event_add
\* The call starts: the record is built from the seed (mod.rs 224-228).
\* logidx is history: the position of the call's entry in the log.
AddBegin(p, t, user, seed) ==
    /\ ~Running(p)
    /\ ncalls < MaxCalls
    /\ ncalls' = ncalls + 1
    /\ call' = [call EXCEPT ![p] =
                   [op |-> "add", t |-> t, user |-> user, seed |-> seed,
                    rec |-> NewRecord(t, seed), logidx |-> 0]]
    /\ ret' = [ret EXCEPT ![p] = NoRet]
    /\ pc' = [pc EXCEPT ![p] = "add_lock"]
    /\ conc' = Overlaps(p)
    /\ UNCHANGED <<tables, tbl_writer, tbl_readers, rec_writer, wal, issued, accepted>>
    /\ UNCHANGED <<locks, macro, derived>>

\* self.wal.record(..) is entered: let mut store = self.0.lock().map_err(..)?
\* waits for the log's Mutex; a poisoned Mutex makes record return
\* Err("Poison"), which the caller's ? turns into Other.
AddLogLock(p) ==
    /\ pc[p] = "add_wal"
    /\ log_holder = NoProc
    /\ IF is_poisoned("wal")
       THEN /\ ret' = [ret EXCEPT ![p] = Other]
            /\ tbl_writer' = [tbl_writer EXCEPT ![call[p].t] = NoProc]
            /\ pc' = [pc EXCEPT ![p] = "done"]
            /\ UNCHANGED log_holder
       ELSE /\ log_holder' = p
            /\ pc' = [pc EXCEPT ![p] = "add_log"]
            /\ UNCHANGED <<ret, tbl_writer>>
    /\ UNCHANGED <<tables, tbl_readers, rec_writer, wal, call, ncalls, conc, issued, accepted>>
    /\ UNCHANGED <<poisoned, rec_poisoned, macro, derived>>

\* Mutant of AddLockTable: the table is taken for writing while readers
\* still hold it.
AddLockTable_IgnoresReaders(p) ==
    /\ pc[p] = "add_lock"
    /\ LET t == call[p].t IN
        /\ tbl_writer[t] = NoProc
        /\ IF is_poisoned(t)
           THEN /\ ret' = [ret EXCEPT ![p] = Poisoned]
                /\ pc' = [pc EXCEPT ![p] = "done"]
                /\ UNCHANGED tbl_writer
           ELSE /\ tbl_writer' = [tbl_writer EXCEPT ![t] = p]
                /\ pc' = [pc EXCEPT ![p] = "add_wal"]
                /\ UNCHANGED ret
    /\ UNCHANGED <<tables, tbl_readers, rec_writer, wal, call, ncalls, conc, issued, accepted>>
    /\ UNCHANGED <<locks, macro, derived>>

\* self.artists.write()?: waits until no reader and no writer holds the
\* table.  If the lock is poisoned the ? returns Poisoned and drops the guard.
AddLockTable(p) ==
    /\ pc[p] = "add_lock"
    /\ LET t == call[p].t IN
        /\ tbl_writer[t] = NoProc
        /\ tbl_readers[t] = {}
        /\ IF is_poisoned(t)
           THEN /\ ret' = [ret EXCEPT ![p] = Poisoned]
                /\ pc' = [pc EXCEPT ![p] = "done"]
                /\ UNCHANGED tbl_writer
           ELSE /\ tbl_writer' = [tbl_writer EXCEPT ![t] = p]
                /\ pc' = [pc EXCEPT ![p] = "add_wal"]
                /\ UNCHANGED ret
    /\ UNCHANGED <<tables, tbl_readers, rec_writer, wal, call, ncalls, conc, issued, accepted>>
    /\ UNCHANGED <<locks, macro, derived>>

\* Mutant of AddLog: the record is pushed before the log is written, so a
\* failing log leaves it in the table.
AddLog_PushOnFail(p) ==
    /\ pc[p] = "add_log"
    /\ LET t == call[p].t IN
       \E ok \in BOOLEAN :
          IF ok
          THEN /\ wal' = record(wal, call[p].user, ApiName(t), to_string(call[p].rec))
               /\ call' = [call EXCEPT ![p].logidx = Len(wal')]
               /\ pc' = [pc EXCEPT ![p] = "add_push"]
               /\ UNCHANGED <<tables, tbl_writer, ret, rec_writer, accepted>>
          ELSE /\ ret' = [ret EXCEPT ![p] = Other]
               /\ tables' = [tables EXCEPT ![t] = Append(@, call[p].rec)]
               /\ rec_writer' = IF t = "artists" THEN Append(rec_writer, NoProc) ELSE rec_writer
               /\ accepted' = IF t = "artists" THEN Append(accepted, <<>>) ELSE accepted
               /\ tbl_writer' = [tbl_writer EXCEPT ![t] = NoProc]
               /\ pc' = [pc EXCEPT ![p] = "done"]
               /\ UNCHANGED <<wal, call>>
    /\ log_holder' = NoProc
    /\ UNCHANGED <<tbl_readers, ncalls, conc, issued>>
    /\ UNCHANGED <<poisoned, rec_poisoned, macro, derived>>

\* Mutant of AddLog: on Err the table's write guard is leaked, not dropped.
AddLog_LeakGuard(p) ==
    /\ pc[p] = "add_log"
    /\ LET t == call[p].t IN
       \E ok \in BOOLEAN :
          IF ok
          THEN /\ wal' = record(wal, call[p].user, ApiName(t), to_string(call[p].rec))
               /\ call' = [call EXCEPT ![p].logidx = Len(wal')]
               /\ pc' = [pc EXCEPT ![p] = "add_push"]
               /\ UNCHANGED ret
          ELSE /\ ret' = [ret EXCEPT ![p] = Other]
               /\ pc' = [pc EXCEPT ![p] = "done"]
               /\ UNCHANGED <<wal, call>>
    /\ log_holder' = NoProc
    /\ UNCHANGED <<tables, tbl_writer, tbl_readers, rec_writer, ncalls, conc, issued, accepted>>
    /\ UNCHANGED <<poisoned, rec_poisoned, macro, derived>>

\* The rest of record: the payload is serialized and the entry pushed, and
\* the Mutex is released on return.  On Err (to_string failed) the caller's ?
\* returns the error and the table's write guard is dropped; nothing has
\* been pushed to the table.
AddLog(p) ==
    /\ pc[p] = "add_log"
    /\ LET t == call[p].t IN
       \E ok \in BOOLEAN :
          IF ok
          THEN /\ wal' = record(wal, call[p].user, ApiName(t), to_string(call[p].rec))
               /\ call' = [call EXCEPT ![p].logidx = Len(wal')]
               /\ pc' = [pc EXCEPT ![p] = "add_push"]
               /\ UNCHANGED <<tbl_writer, ret>>
          ELSE /\ ret' = [ret EXCEPT ![p] = Other]
               /\ tbl_writer' = [tbl_writer EXCEPT ![t] = NoProc]
               /\ pc' = [pc EXCEPT ![p] = "done"]
               /\ UNCHANGED <<wal, call>>
    /\ log_holder' = NoProc
    /\ UNCHANGED <<tables, tbl_readers, rec_writer, ncalls, conc, issued, accepted>>
    /\ UNCHANGED <<poisoned, rec_poisoned, macro, derived>>

\* record panics: the thread unwinds, and the guards it drops while
\* panicking poison their locks: the log's Mutex and the table's RwLock,
\* which it held for writing.
AddLogPanic(p) ==
    /\ pc[p] = "add_log"
    /\ ret' = [ret EXCEPT ![p] = Panic]
    /\ pc' = [pc EXCEPT ![p] = "done"]
    /\ log_holder' = NoProc
    /\ tbl_writer' = [tbl_writer EXCEPT ![call[p].t] = NoProc]
    /\ poisoned' = poisoned \cup {"wal", call[p].t}
    /\ UNCHANGED <<tables, tbl_readers, rec_writer, wal, call, ncalls, conc, issued, accepted>>
    /\ UNCHANGED <<rec_poisoned, macro, derived>>

\* Mutant of AddPush: the id returned is the length after the push.
AddPush_LenAsId(p) ==
    /\ pc[p] = "add_push"
    /\ LET t == call[p].t
           pushed == Append(tables[t], call[p].rec)
           id == Len(pushed)
       IN /\ tables' = [tables EXCEPT ![t] = pushed]
          /\ ret' = [ret EXCEPT ![p] = Ok(id)]
          /\ issued' = [issued EXCEPT ![t] = Append(@, id)]
          /\ tbl_writer' = [tbl_writer EXCEPT ![t] = NoProc]
          /\ rec_writer' = IF t = "artists" THEN Append(rec_writer, NoProc) ELSE rec_writer
          /\ accepted' = IF t = "artists" THEN Append(accepted, <<>>) ELSE accepted
    /\ pc' = [pc EXCEPT ![p] = "done"]
    /\ UNCHANGED <<tbl_readers, wal, call, ncalls, conc>>
    /\ UNCHANGED <<locks, macro, derived>>

\* artists.push(RwLock::new(artist)); Ok(ArtistId(artists.len() - 1)).
AddPush(p) ==
    /\ pc[p] = "add_push"
    /\ LET t == call[p].t
           pushed == Append(tables[t], call[p].rec)
           id == Len(pushed) - 1
       IN /\ tables' = [tables EXCEPT ![t] = pushed]
          /\ ret' = [ret EXCEPT ![p] = Ok(id)]
          /\ issued' = [issued EXCEPT ![t] = Append(@, id)]
          /\ tbl_writer' = [tbl_writer EXCEPT ![t] = NoProc]
          /\ rec_writer' = IF t = "artists" THEN Append(rec_writer, NoProc) ELSE rec_writer
          /\ accepted' = IF t = "artists" THEN Append(accepted, <<>>) ELSE accepted
    /\ pc' = [pc EXCEPT ![p] = "done"]
    /\ UNCHANGED <<tbl_readers, wal, call, ncalls, conc>>
    /\ UNCHANGED <<locks, macro, derived>>

\* --------------------------------------------------- artist_metadata_update
\* Mutant of InvalidId: the bounds check is off by one.
InvalidId_OffByOne(id, len) == id > len

\* id.0 >= artists.len()
InvalidId(id, len) == id >= len

\* Mutant of Outdated: the token check is left out.
Outdated_Never(artist, seq_id) == FALSE

\* artist.seq_id != seq_id
Outdated(artist, seq_id) == artist.seq_id # seq_id

\* Mutant of NextSeqId: the previous token is not mixed in.
NextSeqId_HashOnly(seq_id, hash) == hash

\* Hash128(triplet_mix(&[seq_id.0, hash.0]).unwrap())
NextSeqId(seq_id, hash) == triplet_mix(<<seq_id, hash>>)

\* The call starts: let hash = get_hash(&diff).  presented, tok0, pre and
\* logidx are history: the token as the caller passed it, the target's token
\* now, (the default record until the record lock is taken) the record as the
\* call found it,
\* and the position of the call's entry in the log.
UpdBegin(p, user, id, diff, seq_id, update_seq_id) ==
    /\ ~Running(p)
    /\ ncalls < MaxCalls
    /\ ncalls' = ncalls + 1
    /\ call' = [call EXCEPT ![p] =
                   [op |-> "update", user |-> user, id |-> id, diff |-> diff,
                    presented |-> seq_id, seq_id |-> seq_id,
                    update_seq_id |-> update_seq_id, hash |-> get_hash(diff),
                    pre |-> NewArtist(""),
                    tok0 |-> IF id < Len(artists) THEN artists[id + 1].seq_id ELSE -1,
                    logidx |-> 0]]
    /\ ret' = [ret EXCEPT ![p] = NoRet]
    /\ pc' = [pc EXCEPT ![p] = "upd_read"]
    /\ conc' = Overlaps(p)
    /\ UNCHANGED <<tables, tbl_writer, tbl_readers, rec_writer, wal, issued, accepted>>
    /\ UNCHANGED <<locks, macro, derived>>

\* let artists = self.artists.read()?; then the bounds check.  A poisoned
\* table lock returns Poisoned; an invalid id returns at once and the read
\* guard is dropped with it.
UpdReadTable(p) ==
    /\ pc[p] = "upd_read"
    /\ tbl_writer["artists"] = NoProc
    /\ IF is_poisoned("artists")
       THEN /\ ret' = [ret EXCEPT ![p] = Poisoned]
            /\ pc' = [pc EXCEPT ![p] = "done"]
            /\ UNCHANGED tbl_readers
       ELSE IF InvalidId(call[p].id, Len(artists))
       THEN /\ ret' = [ret EXCEPT ![p] = InvalidArtistId(call[p].id)]
            /\ pc' = [pc EXCEPT ![p] = "done"]
            /\ UNCHANGED tbl_readers
       ELSE /\ tbl_readers' = [tbl_readers EXCEPT !["artists"] = @ \cup {p}]
            /\ pc' = [pc EXCEPT ![p] = "upd_lock"]
            /\ UNCHANGED ret
    /\ UNCHANGED <<tables, tbl_writer, rec_writer, wal, call, ncalls, conc, issued, accepted>>
    /\ UNCHANGED <<locks, macro, derived>>

\* let mut artist = artists[id.0].write()?; the token check; the token write.
\* Indexing past the end panics: the thread unwinds and drops its read guard.
\* A poisoned record lock returns Poisoned.
UpdLockRecord(p) ==
    /\ pc[p] = "upd_lock"
    /\ LET id == call[p].id
           i == id + 1
       IN IF id >= Len(artists)
          THEN /\ ret' = [ret EXCEPT ![p] = Panic]
               /\ tbl_readers' = [tbl_readers EXCEPT !["artists"] = @ \ {p}]
               /\ pc' = [pc EXCEPT ![p] = "done"]
               /\ UNCHANGED <<tables, rec_writer, call>>
          ELSE /\ rec_writer[i] = NoProc
               /\ IF rec_is_poisoned(i)
                  THEN /\ ret' = [ret EXCEPT ![p] = Poisoned]
                       /\ tbl_readers' = [tbl_readers EXCEPT !["artists"] = @ \ {p}]
                       /\ pc' = [pc EXCEPT ![p] = "done"]
                       /\ UNCHANGED <<tables, rec_writer, call>>
                  ELSE IF Outdated(artists[i], call[p].seq_id)
                  THEN /\ ret' = [ret EXCEPT ![p] = OutdatedUpdate]
                       /\ tbl_readers' = [tbl_readers EXCEPT !["artists"] = @ \ {p}]
                       /\ pc' = [pc EXCEPT ![p] = "done"]
                       /\ UNCHANGED <<tables, rec_writer, call>>
                  ELSE /\ rec_writer' = [rec_writer EXCEPT ![i] = p]
                       /\ IF call[p].update_seq_id
                          THEN LET new == NextSeqId(call[p].seq_id, call[p].hash) IN
                               /\ call' = [call EXCEPT ![p].seq_id = new,
                                                       ![p].pre = artists[i]]
                               /\ tables' = [tables EXCEPT !["artists"][i].seq_id = new]
                          ELSE /\ call' = [call EXCEPT ![p].pre = artists[i]]
                               /\ UNCHANGED tables
                       /\ pc' = [pc EXCEPT ![p] = "upd_wal"]
                       /\ UNCHANGED <<ret, tbl_readers>>
    /\ UNCHANGED <<tbl_writer, wal, ncalls, conc, issued, accepted>>
    /\ UNCHANGED <<locks, macro, derived>>

\* self.wal.record(..) is entered: the call waits for the log's Mutex; a
\* poisoned Mutex makes record return Err("Poison"), which the caller's ?
\* turns into Other, dropping both guards.
UpdLogLock(p) ==
    /\ pc[p] = "upd_wal"
    /\ log_holder = NoProc
    /\ IF is_poisoned("wal")
       THEN /\ ret' = [ret EXCEPT ![p] = Other]
            /\ rec_writer' = [rec_writer EXCEPT ![call[p].id + 1] = NoProc]
            /\ tbl_readers' = [tbl_readers EXCEPT !["artists"] = @ \ {p}]
            /\ pc' = [pc EXCEPT ![p] = "done"]
            /\ UNCHANGED log_holder
       ELSE /\ log_holder' = p
            /\ pc' = [pc EXCEPT ![p] = "upd_log"]
            /\ UNCHANGED <<ret, rec_writer, tbl_readers>>
    /\ UNCHANGED <<tables, tbl_writer, wal, call, ncalls, conc, issued, accepted>>
    /\ UNCHANGED <<poisoned, rec_poisoned, macro, derived>>

\* Mutant of UpdLog: the diff is applied before the log is written, so a
\* failing log leaves it in the record.
UpdLog_ApplyOnFail(p) ==
    /\ pc[p] = "upd_log"
    /\ \E ok \in BOOLEAN :
          IF ok
          THEN /\ wal' = record(wal, call[p].user, "artist_metadata_update",
                                to_string_diff(call[p].diff))
               /\ call' = [call EXCEPT ![p].logidx = Len(wal')]
               /\ pc' = [pc EXCEPT ![p] = "upd_apply"]
               /\ UNCHANGED <<tables, ret, rec_writer, tbl_readers>>
          ELSE /\ ret' = [ret EXCEPT ![p] = Other]
               /\ tables' = [tables EXCEPT !["artists"][call[p].id + 1] =
                                apply_artist_meta_data_diff(@, call[p].diff)]
               /\ rec_writer' = [rec_writer EXCEPT ![call[p].id + 1] = NoProc]
               /\ tbl_readers' = [tbl_readers EXCEPT !["artists"] = @ \ {p}]
               /\ pc' = [pc EXCEPT ![p] = "done"]
               /\ UNCHANGED <<wal, call>>
    /\ log_holder' = NoProc
    /\ UNCHANGED <<tbl_writer, ncalls, conc, issued, accepted>>
    /\ UNCHANGED <<poisoned, rec_poisoned, macro, derived>>

\* The rest of record: the diff is serialized and the entry pushed, and the
\* Mutex is released on return.  On Err the caller's ? returns the error and
\* both guards are dropped.
UpdLog(p) ==
    /\ pc[p] = "upd_log"
    /\ \E ok \in BOOLEAN :
          IF ok
          THEN /\ wal' = record(wal, call[p].user, "artist_metadata_update",
                                to_string_diff(call[p].diff))
               /\ call' = [call EXCEPT ![p].logidx = Len(wal')]
               /\ pc' = [pc EXCEPT ![p] = "upd_apply"]
               /\ UNCHANGED <<ret, rec_writer, tbl_readers>>
          ELSE /\ ret' = [ret EXCEPT ![p] = Other]
               /\ rec_writer' = [rec_writer EXCEPT ![call[p].id + 1] = NoProc]
               /\ tbl_readers' = [tbl_readers EXCEPT !["artists"] = @ \ {p}]
               /\ pc' = [pc EXCEPT ![p] = "done"]
               /\ UNCHANGED <<wal, call>>
    /\ log_holder' = NoProc
    /\ UNCHANGED <<tables, tbl_writer, ncalls, conc, issued, accepted>>
    /\ UNCHANGED <<poisoned, rec_poisoned, macro, derived>>

\* record panics: the thread unwinds, and the guards it drops while
\* panicking poison the locks it held for writing: the log's Mutex and the
\* record's RwLock.  The table's RwLock, held for reading, is released
\* unpoisoned.
UpdLogPanic(p) ==
    /\ pc[p] = "upd_log"
    /\ ret' = [ret EXCEPT ![p] = Panic]
    /\ pc' = [pc EXCEPT ![p] = "done"]
    /\ log_holder' = NoProc
    /\ rec_writer' = [rec_writer EXCEPT ![call[p].id + 1] = NoProc]
    /\ tbl_readers' = [tbl_readers EXCEPT !["artists"] = @ \ {p}]
    /\ poisoned' = poisoned \cup {"wal"}
    /\ rec_poisoned' = rec_poisoned \cup {call[p].id + 1}
    /\ UNCHANGED <<tables, tbl_writer, wal, call, ncalls, conc, issued, accepted, macro, derived>>

\* Mutant of UpdApply: the diff is applied to the first record of the table.
UpdApply_FirstRecord(p) ==
    /\ pc[p] = "upd_apply"
    /\ LET i == call[p].id + 1 IN
        /\ tables' = [tables EXCEPT !["artists"][1] =
                         apply_artist_meta_data_diff(@, call[p].diff)]
        /\ accepted' = [accepted EXCEPT ![i] =
                           Append(@, [h |-> call[p].hash, tok |-> call[p].seq_id])]
        /\ rec_writer' = [rec_writer EXCEPT ![i] = NoProc]
    /\ ret' = [ret EXCEPT ![p] = Ok(call[p].seq_id)]
    /\ tbl_readers' = [tbl_readers EXCEPT !["artists"] = @ \ {p}]
    /\ pc' = [pc EXCEPT ![p] = "done"]
    /\ UNCHANGED <<tbl_writer, wal, call, ncalls, conc, issued>>
    /\ UNCHANGED <<locks, macro, derived>>

\* Mutant of UpdApply: the call returns the hash of the diff, not the token.
UpdApply_ReturnsHash(p) ==
    /\ pc[p] = "upd_apply"
    /\ LET i == call[p].id + 1 IN
        /\ tables' = [tables EXCEPT !["artists"][i] =
                         apply_artist_meta_data_diff(@, call[p].diff)]
        /\ accepted' = [accepted EXCEPT ![i] =
                           Append(@, [h |-> call[p].hash, tok |-> call[p].seq_id])]
        /\ rec_writer' = [rec_writer EXCEPT ![i] = NoProc]
    /\ ret' = [ret EXCEPT ![p] = Ok(call[p].hash)]
    /\ tbl_readers' = [tbl_readers EXCEPT !["artists"] = @ \ {p}]
    /\ pc' = [pc EXCEPT ![p] = "done"]
    /\ UNCHANGED <<tbl_writer, wal, call, ncalls, conc, issued>>
    /\ UNCHANGED <<locks, macro, derived>>

\* apply_artist_meta_data_diff(&mut artist, diff); Ok(seq_id).
UpdApply(p) ==
    /\ pc[p] = "upd_apply"
    /\ LET i == call[p].id + 1 IN
        /\ tables' = [tables EXCEPT !["artists"][i] =
                         apply_artist_meta_data_diff(@, call[p].diff)]
        /\ accepted' = [accepted EXCEPT ![i] =
                           Append(@, [h |-> call[p].hash, tok |-> call[p].seq_id])]
        /\ rec_writer' = [rec_writer EXCEPT ![i] = NoProc]
    /\ ret' = [ret EXCEPT ![p] = Ok(call[p].seq_id)]
    /\ tbl_readers' = [tbl_readers EXCEPT !["artists"] = @ \ {p}]
    /\ pc' = [pc EXCEPT ![p] = "done"]
    /\ UNCHANGED <<tbl_writer, wal, call, ncalls, conc, issued>>
    /\ UNCHANGED <<locks, macro, derived>>

\* -------------------------------------------------------------------- Next
Next ==
    \/ \E p \in Procs, t \in Tables, user \in UserIds :
          \E seed \in Seeds(t) : AddBegin(p, t, user, seed)
    \/ \E p \in Procs : AddLockTable(p)
    \/ \E p \in Procs : AddLogLock(p)
    \/ \E p \in Procs : AddLog(p)
    \/ \E p \in Procs : AddPush(p)
    \/ \E p \in Procs, user \in UserIds, id \in ArtistIds,
          diff \in ArtistMetaDataDiffs, seq_id \in Hash128s, update_seq_id \in BOOLEAN :
          UpdBegin(p, user, id, diff, seq_id, update_seq_id)
    \/ \E p \in Procs : UpdReadTable(p)
    \/ \E p \in Procs : UpdLockRecord(p)
    \/ \E p \in Procs : UpdLogLock(p)
    \/ \E p \in Procs : UpdLog(p)
    \/ \E p \in Procs : UpdApply(p)

Spec == Init /\ [][Next]_vars

\* ------------------------------------------------------ a populated store
\* The store after artist_add("a") and artist_add("b") have returned ids 0
\* and 1, with no call in progress; MaxCalls further calls are made.
InitPopulated ==
    /\ tables = [t \in Tables |->
                    IF t = "artists" THEN <<NewArtist("a"), NewArtist("b")>> ELSE <<>>]
    /\ tbl_writer = [t \in Tables |-> NoProc]
    /\ tbl_readers = [t \in Tables |-> {}]
    /\ rec_writer = <<NoProc, NoProc>>
    /\ wal = record(record(<<>>, "u1", ApiName("artists"), to_string(NewArtist("a"))),
                    "u1", ApiName("artists"), to_string(NewArtist("b")))
    /\ pc = [p \in Procs |-> "idle"]
    /\ call = [p \in Procs |-> [op |-> "none"]]
    /\ ret = [p \in Procs |-> NoRet]
    /\ ncalls = 0
    /\ conc = [p \in Procs |-> {}]
    /\ issued = [t \in Tables |-> IF t = "artists" THEN <<0, 1>> ELSE <<>>]
    /\ accepted = << <<>>, <<>> >>
    /\ log_holder = NoProc
    /\ poisoned = {}
    /\ rec_poisoned = {}
    /\ group_members = <<>>
    /\ artist_discography = <<>>
    /\ derived_songs = <<>>
    /\ input = ArtistMetaData
    /\ output = [done |-> TRUE, fields |-> derive_diffs(ArtistMetaData), diff |-> NoDiff]
    /\ obj = NewArtist("")

SpecPopulated == InitPopulated /\ [][Next]_vars

\* ------------------------------------------------- abnormal termination
\* The store with a log whose record call may panic.
NextPoison ==
    \/ Next
    \/ \E p \in Procs : AddLogPanic(p)
    \/ \E p \in Procs : UpdLogPanic(p)

SpecPoison == Init /\ [][NextPoison]_vars

\* ------------------------------------------------------- fair scheduling
\* A step of thread p inside a call it has started.
Step(p) ==
    \/ AddLockTable(p) \/ AddLogLock(p) \/ AddLog(p) \/ AddPush(p)
    \/ UpdReadTable(p) \/ UpdLockRecord(p) \/ UpdLogLock(p) \/ UpdLog(p) \/ UpdApply(p)

\* The calls made under fair scheduling.  Which locks a call takes and which
\* way it branches depends on its table, its id and its token only, so one
\* user, one seed, one diff and update_seq_id = true stand for all.
FairDiff == [variant |-> "Name", v |-> "b"]

NextFair ==
    \/ \E p \in Procs, t \in Tables : AddBegin(p, t, "u1", "a")
    \/ \E p \in Procs : AddLockTable(p)
    \/ \E p \in Procs : AddLogLock(p)
    \/ \E p \in Procs : AddLog(p)
    \/ \E p \in Procs : AddPush(p)
    \/ \E p \in Procs, id \in ArtistIds, seq_id \in Hash128s :
          UpdBegin(p, "u1", id, FairDiff, seq_id, TRUE)
    \/ \E p \in Procs : UpdReadTable(p)
    \/ \E p \in Procs : UpdLockRecord(p)
    \/ \E p \in Procs : UpdLogLock(p)
    \/ \E p \in Procs : UpdLog(p)
    \/ \E p \in Procs : UpdApply(p)

\* Every thread that can take a step eventually takes one: the scheduler
\* runs every runnable thread, and a thread waiting for a lock is woken when
\* the lock is free.  Callers need not start calls.
FairSpec == Init /\ [][NextFair]_vars /\ \A p \in Procs : WF_vars(Step(p))

\* ---------------------------------------------- the derive macro on its own
\* The struct of macros/tests/simple.rs, Foo { a, b, skipped }, with every
\* choice of attributes on its fields.
Idents == <<"a", "b", "skipped">>
AttrLists ==
    {<<>>, <<skip_diff>>, <<other_path>>, <<serde_list>>, <<doc_value>>,
     <<other_path, skip_diff>>, <<serde_list, skip_diff>>}
Structs ==
    {[k \in 1 .. Len(Idents) |-> [ident |-> Idents[k], attrs |-> as[k]]] :
        as \in [1 .. Len(Idents) -> AttrLists]}
\* Payloads of Foo's fields.
FooVals == {1, 2}

InitMacro ==
    /\ InitStore
    /\ input \in Structs
    /\ output = [done |-> FALSE, fields |-> <<>>, diff |-> NoDiff]
    /\ obj = [a |-> 0, b |-> 0, skipped |-> 0]

\* #[derive(DiffFields)] is expanded.
Derive ==
    /\ ~output.done
    /\ output' = [done |-> TRUE, fields |-> derive_diffs(input), diff |-> NoDiff]
    /\ UNCHANGED <<tables, tbl_writer, tbl_readers, rec_writer, wal, pc, call, ret,
                   ncalls, conc, issued, accepted, locks, input, obj, derived>>

\* apply_foo_diff(&mut obj, diff), for a value of the generated enum.
Apply(diff) ==
    /\ output.done
    /\ obj' = apply_fn(output.fields, obj, diff)
    /\ output' = [output EXCEPT !.diff = diff]
    /\ UNCHANGED <<tables, tbl_writer, tbl_readers, rec_writer, wal, pc, call, ret,
                   ncalls, conc, issued, accepted, locks, input, derived>>

NextMacro ==
    \/ Derive
    \/ \E diff \in DiffType(output.fields, FooVals) : Apply(diff)

SpecMacro == InitMacro /\ [][NextMacro]_vars


\* ============================================================== properties
Done(p) == pc[p] = "done"
IsUpdate(p) == call[p].op = "update"
IsAdd(p) == call[p].op = "add"

\* The last calls of p and q were two updates of the same artist that ran
\* concurrently, both presenting the token the record had when each started,
\* both asking for the token to be advanced, and neither hit a log failure.
RacedOnSameToken(p, q) ==
    /\ p # q /\ Done(p) /\ Done(q) /\ IsUpdate(p) /\ IsUpdate(q)
    /\ q \in conc[p]
    /\ call[p].id = call[q].id
    /\ call[p].presented = call[q].presented
    /\ call[p].tok0 = call[p].presented /\ call[q].tok0 = call[q].presented
    /\ call[p].update_seq_id /\ call[q].update_seq_id
    /\ ret[p].kind # "Other" /\ ret[q].kind # "Other"

\* C1 (as claimed): of two concurrent token-advancing updates of one artist
\* that present the same token, the token the record had before either,
\* exactly one returns Ok and the other returns OutdatedUpdate.
C1_ExactlyOneWins ==
    \A p, q \in Procs :
        RacedOnSameToken(p, q) =>
            \/ ret[p].kind = "Ok" /\ ret[q].kind = "OutdatedUpdate"
            \/ ret[q].kind = "Ok" /\ ret[p].kind = "OutdatedUpdate"

\* C2: an update whose presented token differs from the record's token when
\* the record lock is taken returns OutdatedUpdate, and no step of that call
\* (starting, reading the table, the rejection itself) changes any record,
\* any token or the audit log.
C2_StaleRejectedUntouched ==
    [][\A p \in Procs :
          /\ (/\ pc[p] = "upd_lock"
              /\ pc'[p] # "upd_lock"
              /\ call[p].id < Len(artists)
              /\ artists[call[p].id + 1].seq_id # call[p].presented)
             => (ret'[p] = OutdatedUpdate /\ pc'[p] = "done"
                 /\ tables' = tables /\ wal' = wal)
          /\ (pc'[p] # pc[p] /\ pc'[p] \in {"upd_read", "upd_lock"})
             => (tables' = tables /\ wal' = wal)
       ]_vars

\* C2 witness: an update has been rejected as outdated.
C2_Witness ==
    \E p \in Procs : Done(p) /\ IsUpdate(p) /\ ret[p].kind = "OutdatedUpdate"

\* C3: when the log's record call fails inside an update, the call returns an
\* error and the record it leaves behind equals, field by field and token
\* included, the record it found when it took the record lock.
C3_LogFailureLeavesRecord ==
    [][\A p \in Procs :
          (pc[p] = "upd_log" /\ pc'[p] = "done")
             => (/\ ret'[p].kind = "Other"
                 /\ artists'[call[p].id + 1] = call[p].pre
                 /\ wal' = wal)
       ]_vars

\* C3 witness: a token-advancing update that had passed the token check has
\* returned the log's error.
C3_Witness ==
    \E p \in Procs :
        /\ Done(p) /\ IsUpdate(p) /\ ret[p].kind = "Other"
        /\ call[p].update_seq_id

\* C4 (as claimed): an accepted token-advancing update changes the token: the
\* token it returns differs from the token it was presented with.
C4_AcceptedUpdateChangesToken ==
    \A p \in Procs :
        (Done(p) /\ IsUpdate(p) /\ ret[p].kind = "Ok" /\ call[p].update_seq_id)
            => ret[p].val # call[p].presented

\* ---- the audit log read back
Quiescent == \A p \in Procs : ~Running(p)
EmptyStore == [t \in Tables |-> <<>>]

TableOfApi(api) ==
    CASE api = "artist_add" -> "artists"
      [] api = "release_add" -> "releases"
      [] api = "event_add" -> "events"

\* Reading a logged record back: a key that was left out is a None.
from_str(t, json) ==
    [k \in DOMAIN NewRecord(t, "a") |-> IF k \in DOMAIN json THEN json[k] ELSE None]

\* Reading a logged diff back.
from_str_diff(json) ==
    LET variant == CHOOSE k \in DOMAIN json : TRUE
    IN  [variant |-> variant, v |-> json[variant]]

\* The stores one log entry can produce from a store.  An add entry names
\* its table (by the api name) and carries the whole record.  An update entry
\* carries the diff and nothing else, so it may have been applied to any
\* artist of the table.
ReplayEntry(store, e) ==
    IF e[2] = "artist_metadata_update"
    THEN {[store EXCEPT !["artists"][i] =
              apply_artist_meta_data_diff(@, from_str_diff(e[3]))] :
          i \in 1 .. Len(store["artists"])}
    ELSE {[store EXCEPT ![TableOfApi(e[2])] = Append(@, from_str(TableOfApi(e[2]), e[3]))]}

RECURSIVE Replay(_, _)
Replay(stores, log) ==
    IF log = <<>> THEN stores
    ELSE Replay(UNION {ReplayEntry(st, Head(log)) : st \in stores}, Tail(log))

RECURSIVE SumLen(_, _)
SumLen(seqs, n) == IF n = 0 THEN 0 ELSE Len(seqs[n]) + SumLen(seqs, n - 1)

Committed ==
    Len(artists) + Len(releases) + Len(events) + SumLen(accepted, Len(accepted))

\* C5 (as claimed): whenever no call is in progress, the log holds exactly one
\* entry per committed add or update and none for a rejected call, and
\* replaying its entries in stored order from the empty store yields the
\* store's current records and nothing else.
C5_LogReplaysToStore ==
    Quiescent => (Len(wal) = Committed /\ Replay({EmptyStore}, wal) = {tables})

\* ---- the token chain
\* The mixing step applied to the pair (current token, hash of the diff).
chain(token, hash) == triplet_mix(<<token, hash>>)

RECURSIVE ChainOf(_, _)
ChainOf(acc, n) == IF n = 0 THEN 0 ELSE chain(ChainOf(acc, n - 1), acc[n].h)

\* C6: for every artist, the token returned by its n-th accepted update is
\* chain(...chain(chain(0, h1), h2)..., hn), and whenever no call holds the
\* record the stored token is the chain over all its accepted updates.
C6_TokenIsChainOfAccepted ==
    \A i \in 1 .. Len(artists) :
        /\ \A n \in 1 .. Len(accepted[i]) : accepted[i][n].tok = ChainOf(accepted[i], n)
        /\ rec_writer[i] = NoProc
              => artists[i].seq_id = ChainOf(accepted[i], Len(accepted[i]))

\* C6 witness: an artist has had two token-advancing updates accepted one
\* after the other.
C6_Witness ==
    \E i \in 1 .. Len(artists) : Len(accepted[i]) >= 2 /\ rec_writer[i] = NoProc

\* C7: an update whose id is not below the table's length when the table is
\* read returns InvalidArtistId(id), whatever token it presents, changing no
\* record and no log entry; and no call ever indexes the table out of bounds.
C7_InvalidIdRejected ==
    [][\A p \in Procs :
          /\ (pc[p] = "upd_read" /\ pc'[p] # "upd_read" /\ call[p].id >= Len(artists))
             => (/\ ret'[p] = InvalidArtistId(call[p].id)
                 /\ pc'[p] = "done"
                 /\ tables' = tables /\ wal' = wal)
          /\ pc'[p] = "upd_lock" => call[p].id < Len(artists')
          /\ ret'[p].kind # "Panic"
       ]_vars

\* C7 witness: an update presenting a token no record has was turned away
\* for its id.
C7_Witness ==
    \E p \in Procs :
        /\ Done(p) /\ IsUpdate(p) /\ ret[p].kind = "InvalidArtistId"
        /\ call[p].presented # 0

\* C8: a successful add returns the table's length before the call, which is
\* the index of its record; the ids returned for a table are 0, 1, .. n-1 in
\* the order of the adds; a table never shrinks and an add leaves every record
\* already in the table at its index.
C8_IdsAreInsertionIndexes ==
    [][\A t \in Tables :
          /\ Len(tables'[t]) >= Len(tables[t])
          /\ issued'[t] = [i \in 1 .. Len(tables'[t]) |-> i - 1]
          /\ \A p \in Procs :
                (pc[p] = "add_push" /\ pc'[p] = "done" /\ call[p].t = t)
                   => (/\ ret'[p] = Ok(Len(tables[t]))
                       /\ Len(tables'[t]) = Len(tables[t]) + 1
                       /\ SubSeq(tables'[t], 1, Len(tables[t])) = tables[t])
          /\ Len(tables'[t]) > Len(tables[t])
                => \E p \in Procs : pc[p] = "add_push" /\ pc'[p] = "done" /\ call[p].t = t
       ]_vars

\* C8 witness: two adds to one table that ran concurrently have both
\* succeeded, with different ids.
C8_Witness ==
    \E p, q \in Procs :
        /\ p # q /\ Done(p) /\ Done(q) /\ IsAdd(p) /\ IsAdd(q)
        /\ q \in conc[p]
        /\ call[p].t = call[q].t
        /\ ret[p].kind = "Ok" /\ ret[q].kind = "Ok"
        /\ ret[p].val # ret[q].val

\* A fresh record of table t: the seed, everything else at its default.
Fresh(t, seed) ==
    CASE t = "artists" -> [name |-> seed, aliases |-> <<>>, kind |-> "None",
                           seq_id |-> 0, tags |-> <<>>]
      [] t = "releases" -> [title |-> seed, release_kind |-> "None", seq_id |-> 0, tags |-> <<>>]
      [] t = "events" -> [name |-> seed, location |-> "None", seq_id |-> 0]

\* C9: the record an add appends has token 0, its seed field equal to the
\* value supplied and every other field at its default, in the state in which
\* it first appears in the table.
C9_NewRecordIsFresh ==
    [][\A p \in Procs :
          (pc[p] = "add_push" /\ pc'[p] = "done")
             => tables'[call[p].t][Len(tables'[call[p].t])] = Fresh(call[p].t, call[p].seed)
       ]_vars

\* C9 witness: an artist_add with seed "b" has succeeded.
C9_Witness ==
    \E p \in Procs :
        /\ Done(p) /\ IsAdd(p) /\ ret[p].kind = "Ok"
        /\ call[p].t = "artists" /\ call[p].seed = "b"

\* C10: when the log's record call fails inside an add, the call returns an
\* error, no table changes and no id is handed out; no step of an add other
\* than its final push changes a table.
C10_AddLogFailureAppendsNothing ==
    [][\A p \in Procs :
          /\ (pc[p] = "add_log" /\ pc'[p] = "done")
             => (/\ ret'[p].kind = "Other"
                 /\ tables' = tables
                 /\ issued' = issued)
          /\ (pc'[p] # pc[p] /\ pc'[p] \in {"add_lock", "add_wal", "add_log", "add_push"})
             => (tables' = tables /\ issued' = issued)
       ]_vars

\* C10 witness: an add has returned the log's error.
C10_Witness ==
    \E p \in Procs : Done(p) /\ IsAdd(p) /\ ret[p].kind = "Other"

\* ---- waiting
\* Thread p is inside a call and the lock it has to take next is held by
\* thread q: p waits until q releases it.
WaitsFor(p, q) ==
    \/ /\ pc[p] = "add_lock"
       /\ (tbl_writer[call[p].t] = q \/ q \in tbl_readers[call[p].t])
    \/ pc[p] = "upd_read" /\ tbl_writer["artists"] = q
    \/ /\ pc[p] = "upd_lock"
       /\ call[p].id < Len(artists)
       /\ rec_writer[call[p].id + 1] = q
    \/ pc[p] \in {"add_wal", "upd_wal"} /\ log_holder = q

\* Thread q is inside an update and holds the lock of its record.
HoldsRecord(q) == IsUpdate(q) /\ pc[q] \in {"upd_wal", "upd_log", "upd_apply"}

\* Thread q is inside an add and holds the lock of its table.
HoldsTable(q) == IsAdd(q) /\ pc[q] \in {"add_wal", "add_log", "add_push"}

\* C11 (as claimed): an update never waits for the record lock while another
\* update of the same artist holds it.
C11_LoserNeverWaits ==
    \A p, q \in Procs :
        (p # q /\ Running(p) /\ IsUpdate(p) /\ HoldsRecord(q) /\ call[p].id = call[q].id)
            => ~WaitsFor(p, q)

\* C12 (as claimed): while an update holds the lock of one artist, an update
\* of another artist never waits for it, at the table lock, at its own
\* record lock or at the log.
C12_DistinctIdsNeverBlock ==
    \A p, q \in Procs :
        (p # q /\ Running(p) /\ IsUpdate(p) /\ HoldsRecord(q) /\ call[p].id # call[q].id)
            => ~WaitsFor(p, q)

\* C13 (as claimed): while an artist_add is in progress, from taking the
\* table lock to its return, an update of an artist already in the table
\* never waits for it.
C13_AddNeverBlocksUpdate ==
    \A p, q \in Procs :
        (/\ p # q /\ HoldsTable(q) /\ call[q].t = "artists"
         /\ Running(p) /\ IsUpdate(p) /\ call[p].id < Len(artists))
            => ~WaitsFor(p, q)

\* C14 (as claimed): when a mutating call returns Ok, the log entry of every
\* call that returned Ok before it lies before its own entry: log order is
\* completion order.
C14_LogOrderIsCompletionOrder ==
    [][\A p, q \in Procs :
          (/\ p # q
           /\ pc[p] \in {"add_push", "upd_apply"} /\ pc'[p] = "done"
           /\ Done(q) /\ ret[q].kind = "Ok")
             => call[q].logidx < call[p].logidx
       ]_vars

\* C15 (as claimed): no two accepted token-advancing updates of one artist
\* presented the same token.
C15_AcceptedPresentDistinctTokens ==
    \A p, q \in Procs :
        (/\ p # q /\ Done(p) /\ Done(q) /\ IsUpdate(p) /\ IsUpdate(q)
         /\ call[p].id = call[q].id
         /\ call[p].update_seq_id /\ call[q].update_seq_id
         /\ ret[p].kind = "Ok" /\ ret[q].kind = "Ok")
            => call[p].presented # call[q].presented

\* ---- poisoned locks
\* The last call of q was an add that panicked: it held its table's lock
\* for writing.
DiedWritingTable(q, t) == Done(q) /\ ret[q] = Panic /\ IsAdd(q) /\ call[q].t = t

\* The last call of q was an update that panicked: it held the artists
\* table's lock for reading and its record's lock for writing.
DiedReadingTable(q, t) == Done(q) /\ ret[q] = Panic /\ IsUpdate(q) /\ t = "artists"
DiedWritingRecord(q, i) == Done(q) /\ ret[q] = Panic /\ IsUpdate(q) /\ call[q].id + 1 = i

\* Thread p takes its step at table lock t (add: write(); update: read()).
AtTableLock(p, t) ==
    \/ pc[p] = "add_lock" /\ pc'[p] # "add_lock" /\ call[p].t = t
    \/ pc[p] = "upd_read" /\ pc'[p] # "upd_read" /\ t = "artists"

\* Thread p takes its step at the lock of record i.
AtRecordLock(p, i) ==
    /\ pc[p] = "upd_lock" /\ pc'[p] # "upd_lock"
    /\ call[p].id < Len(artists) /\ call[p].id + 1 = i

\* The step is p's return of Poisoned, and it changes no record and no log entry.
ReturnsPoisoned(p) ==
    /\ ret'[p] = Poisoned /\ pc'[p] = "done"
    /\ tables' = tables /\ wal' = wal

\* C16 (as claimed): after a call has terminated abnormally holding a table
\* lock or a record lock, in whatever mode, every call that then acquires
\* that lock returns Poisoned, changing no record and no log entry.
C16_AnyDeadHolderPoisons ==
    [][\A p, q \in Procs :
          /\ \A t \in Tables :
                ((DiedWritingTable(q, t) \/ DiedReadingTable(q, t)) /\ AtTableLock(p, t))
                   => ReturnsPoisoned(p)
          /\ \A i \in 1 .. Len(artists) :
                (DiedWritingRecord(q, i) /\ AtRecordLock(p, i)) => ReturnsPoisoned(p)
       ]_vars

\* C16 (amended): after a call has terminated abnormally holding a table
\* lock or a record lock for writing, every call that then acquires that
\* lock, for reading or for writing, returns Poisoned, changing no record and
\* no log entry.
C16_DeadWriterPoisons ==
    [][\A p, q \in Procs :
          /\ \A t \in Tables :
                (DiedWritingTable(q, t) /\ AtTableLock(p, t)) => ReturnsPoisoned(p)
          /\ \A i \in 1 .. Len(artists) :
                (DiedWritingRecord(q, i) /\ AtRecordLock(p, i)) => ReturnsPoisoned(p)
       ]_vars

\* C16 witness: a call has returned Poisoned from a lock whose writer
\* panicked: an update at its record's lock, an add at its table's lock, or
\* an update at the artists table's lock.
C16_Witness ==
    \E p, q \in Procs :
        /\ p # q /\ Done(p) /\ ret[p] = Poisoned
        /\ \/ IsUpdate(p) /\ DiedWritingRecord(q, call[p].id + 1)
           \/ IsAdd(p) /\ DiedWritingTable(q, call[p].t)
           \/ IsUpdate(p) /\ DiedWritingTable(q, "artists")

\* C17 (as claimed): of two identical token-advancing updates (same artist,
\* same diff, same presented token) made one after the other, at most one is
\* accepted: the repeat of an accepted update is not accepted again.
C17_RepeatIsRejected ==
    \A p, q \in Procs :
        (/\ p # q /\ Done(p) /\ Done(q) /\ IsUpdate(p) /\ IsUpdate(q)
         /\ q \notin conc[p] /\ p \notin conc[q]
         /\ call[p].id = call[q].id
         /\ call[p].diff = call[q].diff
         /\ call[p].presented = call[q].presented
         /\ call[p].update_seq_id /\ call[q].update_seq_id)
            => ~(ret[p].kind = "Ok" /\ ret[q].kind = "Ok")

\* ---- termination
\* The positions of a call, in the order the code passes them.
Rank(pos) ==
    CASE pos \in {"idle", "done"} -> 9
      [] pos \in {"add_lock", "upd_read"} -> 1
      [] pos = "upd_lock" -> 2
      [] pos \in {"add_wal", "upd_wal"} -> 3
      [] pos \in {"add_log", "upd_log"} -> 4
      [] pos \in {"add_push", "upd_apply"} -> 5

\* C18: under fair scheduling every call that has started returns; and a
\* call only ever moves forward, so none retries a step: in particular an
\* update that is rejected goes from the record lock straight to its return.
C18_EveryCallReturns ==
    /\ \A p \in Procs : Running(p) ~> Done(p)
    /\ [][\A p \in Procs :
             (pc'[p] # pc[p] /\ Running(p)) => Rank(pc'[p]) > Rank(pc[p])
         ]_vars

\* C18 witness: two updates of one artist, made concurrently, have both
\* returned, one of them rejected.
C18_Witness ==
    \E p, q \in Procs :
        /\ p # q /\ Done(p) /\ Done(q) /\ IsUpdate(p) /\ IsUpdate(q)
        /\ q \in conc[p]
        /\ call[p].id = call[q].id
        /\ ret[p].kind = "Ok" /\ ret[q].kind = "OutdatedUpdate"

\* ---- the derive macro
\* The field of the struct a diff's variant is generated from.
FieldsOfVariant(variant) ==
    {k \in 1 .. Len(input) : map_ident(input[k].ident) = variant}

\* C19: applying a diff sets the field its variant is generated from to the
\* payload and leaves every other field of the object, diffable or skipped,
\* as it was; apply is defined for every value of the generated enum.
C19_ApplySetsOneField ==
    [][(output.done /\ (obj' # obj \/ output'.diff # output.diff))
          => \E k \in FieldsOfVariant(output'.diff.variant) :
                /\ DOMAIN obj' = DOMAIN obj
                /\ obj'[input[k].ident] = output'.diff.v
                /\ \A x \in DOMAIN obj \ {input[k].ident} : obj'[x] = obj[x]
       ]_vars

\* C19 witness: a diff for b has been applied to an object whose a had been
\* set before, in a struct that has a skipped field.
C19_Witness ==
    /\ output.done /\ output.diff = [variant |-> "B", v |-> 2]
    /\ obj.a = 1 /\ obj.b = 2 /\ obj.skipped = 0
    /\ \E k \in 1 .. Len(input) : input[k].ident = "skipped" /\ left_out(input[k])

\* A field carries the skip_diff marker.
Marked(field) == \E j \in 1 .. Len(field.attrs) : field.attrs[j] = skip_diff

\* C20 (as claimed): the generated enum has exactly one variant for every
\* field without the skip_diff marker and none for a field with it, whatever
\* other attributes the field carries.
C20_VariantIffNotMarked ==
    output.done =>
        \A k \in 1 .. Len(input) :
            Cardinality({j \in 1 .. Len(output.fields) :
                            output.fields[j].ident = input[k].ident})
                = IF Marked(input[k]) THEN 0 ELSE 1

\* ---- the log
\* The entry the current call of p hands to the log.
Entry(p) ==
    IF IsAdd(p)
    THEN <<call[p].user, ApiName(call[p].t), to_string(call[p].rec)>>
    ELSE <<call[p].user, "artist_metadata_update", to_string_diff(call[p].diff)>>

\* The record call of q's current call has returned Ok.
Recorded(q) ==
    \/ pc[q] \in {"add_push", "upd_apply"}
    \/ Done(q) /\ call[q].logidx > 0

\* C21: the log is append-only: a step leaves it alone or adds one entry at
\* its end.  A record call that fails appends nothing; one that succeeds
\* appends exactly its entry, behind the entry of every record call that has
\* returned before, each of which is still where it was put.
C21_RecordKeepsRealTimeOrder ==
    [][/\ \/ wal' = wal
          \/ Len(wal') = Len(wal) + 1 /\ SubSeq(wal', 1, Len(wal)) = wal
       /\ \A p \in Procs :
             (pc[p] \in {"add_log", "upd_log"} /\ pc'[p] # pc[p])
                => IF ret'[p].kind = "Other"
                   THEN wal' = wal
                   ELSE /\ Len(wal') = Len(wal) + 1
                        /\ wal'[Len(wal')] = Entry(p)
                        /\ \A q \in Procs \ {p} :
                              Recorded(q)
                                 => /\ call[q].logidx < Len(wal')
                                    /\ wal'[call[q].logidx] = Entry(q)
      ]_vars

\* C21 witness: two record calls made one after the other have both
\* returned Ok, and the log holds the later one's entry behind the earlier's.
C21_Witness ==
    \E p, q \in Procs :
        /\ p # q /\ Done(p) /\ Done(q)
        /\ q \notin conc[p] /\ p \notin conc[q]
        /\ call[p].logidx > 0 /\ call[q].logidx > call[p].logidx
        /\ wal[call[p].logidx] = Entry(p) /\ wal[call[q].logidx] = Entry(q)

\* ---- lock discipline
\* Thread p is inside an update past the table's read(): it holds the
\* artists table's lock in shared mode.
InsideTable(p) == IsUpdate(p) /\ pc[p] \in {"upd_lock", "upd_wal", "upd_log", "upd_apply"}

\* Thread p is inside an update past the record's write(): it holds the lock
\* of artist i exclusively.
InsideRecord(p, i) ==
    IsUpdate(p) /\ pc[p] \in {"upd_wal", "upd_log", "upd_apply"} /\ call[p].id + 1 = i

\* Thread p is inside an add past the table's write(): it holds the lock of
\* table t exclusively.
Appending(p, t) == IsAdd(p) /\ pc[p] \in {"add_wal", "add_log", "add_push"} /\ call[p].t = t

\* C23: at most one update is inside one record and at most one add inside
\* one table; no update is inside the artists table while an add is
\* appending to it; the locks are held by the calls that are inside.  A
\* record changes only by a step of a call that holds the record's lock, and
\* the table's lock in shared mode; a table's length changes only by the last
\* step of a call that holds the table's lock exclusively.
C23_LockDiscipline ==
    /\ [](\A p, q \in Procs :
            /\ p # q =>
                  /\ \A i \in 1 .. Len(artists) : ~(InsideRecord(p, i) /\ InsideRecord(q, i))
                  /\ \A t \in Tables : ~(Appending(p, t) /\ Appending(q, t))
                  /\ ~(Appending(p, "artists") /\ InsideTable(q))
            /\ InsideTable(p) => p \in tbl_readers["artists"]
            /\ \A i \in 1 .. Len(artists) : InsideRecord(p, i) => rec_writer[i] = p
            /\ \A t \in Tables : Appending(p, t) => tbl_writer[t] = p)
    /\ [][/\ \A i \in 1 .. Len(artists) :
                artists'[i] # artists[i]
                   => \E p \in Procs :
                         /\ pc'[p] # pc[p]
                         /\ InsideTable(p) /\ p \in tbl_readers["artists"]
                         /\ InsideRecord(p, i) \/ InsideRecord(p, i)'
                         /\ rec_writer[i] = p \/ rec_writer'[i] = p
          /\ \A t \in Tables :
                Len(tables'[t]) # Len(tables[t])
                   => \E p \in Procs :
                         Appending(p, t) /\ tbl_writer[t] = p /\ pc'[p] = "done"
         ]_vars

\* C23 witness: an update has changed its record while an add to the same
\* table, made concurrently, is still in progress.
C23_Witness ==
    \E p, q \in Procs :
        /\ p # q /\ Done(p) /\ IsUpdate(p) /\ ret[p].kind = "Ok"
        /\ artists[call[p].id + 1] # call[p].pre
        /\ IsAdd(q) /\ q \in conc[p] /\ call[q].t = "artists" /\ Running(q)

\* ---- the frame of an update
\* C24: no step of an artist_metadata_update call, accepted or rejected,
\* changes another artist's record (fields or token), the length of a table,
\* a release, an event or a derived index.
C24_UpdateFrame ==
    [][\A p \in Procs :
          (pc'[p] # pc[p] /\ call'[p].op = "update")
             => /\ \A t \in Tables : Len(tables'[t]) = Len(tables[t])
                /\ releases' = releases
                /\ events' = events
                /\ \A i \in 1 .. Len(artists) :
                      i # call'[p].id + 1 => artists'[i] = artists[i]
                /\ group_members' = group_members
                /\ artist_discography' = artist_discography
                /\ derived_songs' = derived_songs
       ]_vars

\* C24 witness: of two artists, the second has had an update accepted and
\* its aliases changed, and the first is as it was added.
C24_Witness ==
    \E p \in Procs :
        /\ Done(p) /\ IsUpdate(p) /\ ret[p].kind = "Ok" /\ call[p].id = 1
        /\ Len(artists) = 2
        /\ artists[2].aliases = <<"b">>
        /\ artists[1].aliases = <<>> /\ artists[1].seq_id = 0

\* ---- update_seq_id
\* C25: an update called with update_seq_id = false that passes the token
\* check does not write the token; unless the log's record call fails, it
\* returns Ok with the token it was presented with, its entry is in the log,
\* and the record is the record it found with the diff applied, token
\* included.  An update called with update_seq_id = true that returns Ok
\* returns the token the record then holds.
C25_FlagDecidesTokenWrite ==
    [][\A p \in Procs :
          LET i == call[p].id + 1 IN
          /\ (pc[p] = "upd_lock" /\ pc'[p] = "upd_wal" /\ ~call[p].update_seq_id)
                => (artists'[i] = artists[i] /\ call'[p].seq_id = call[p].presented)
          /\ (pc[p] = "upd_log" /\ pc'[p] = "done") => ret'[p].kind # "Ok"
          /\ (pc[p] = "upd_apply" /\ pc'[p] # pc[p])
                => /\ pc'[p] = "done" /\ ret'[p].kind = "Ok"
                   /\ artists'[i].seq_id = ret'[p].val
                   /\ wal[call[p].logidx] = Entry(p)
                   /\ ~call[p].update_seq_id
                         => /\ ret'[p].val = call[p].presented
                            /\ call[p].pre.seq_id = call[p].presented
                            /\ artists'[i] =
                                  [x \in DOMAIN call[p].pre |->
                                      IF map_ident(x) = call[p].diff.variant
                                      THEN call[p].diff.v ELSE call[p].pre[x]]
       ]_vars

\* C25 witness: an update with update_seq_id = false has been accepted and
\* has changed the name of its record, and an update of the same artist with
\* update_seq_id = true has been accepted as well.
C25_Witness ==
    \E p, q \in Procs :
        /\ p # q /\ Done(p) /\ Done(q) /\ IsUpdate(p) /\ IsUpdate(q)
        /\ call[p].id = call[q].id
        /\ ret[p].kind = "Ok" /\ ret[q].kind = "Ok"
        /\ ~call[p].update_seq_id /\ call[q].update_seq_id
        /\ call[p].diff.variant = "Name" /\ call[p].pre.name # call[p].diff.v

=============================================================================
